---- MODULE Spec2Model ----
(***************************************************************************)
(* Template composition and execution engine of app/routers/templates.py:  *)
(* execute_template and execute_composed_template, run against a store     *)
(* (the graph database holding Template / Parameter / COMPOSES data) and a *)
(* query backend whose answers are not under the program's control.        *)
(***************************************************************************)
EXTENDS Naturals, Sequences, FiniteSets, TLC

VARIABLES
    template_name,    \* the path parameter of the request
    store,            \* what the database holds under template_name
    parameters,       \* the caller's input map (request body)
    pc,               \* position of the request inside execute_template
    driver,           \* the local variable `driver` of execute_template: a driver object
    template_info,    \* result.single() of the first lookup
    record,           \* result.single() of the composition lookup
    composition_type, \* record["type"]
    components,       \* sorted(record["components"], key=order)
    idx,              \* position of the for loop over components
    results,          \* the list `results` of execute_composed_template
    context,          \* the dict `context`
    trace,            \* per loop iteration: what was resolved and what happened
    calls,            \* every (query, bound parameters) sent for a template query
    response,         \* what the request returns or raises
    memo,             \* answers already given by a deterministic backend
    run,              \* 1 for the first request, 2 for the repeated one
    first,            \* composed_results of the first request (for comparison)
    pool,             \* the driver objects created so far: open or closed, times closed
    connection,       \* neo4j_connection.driver, the field of the module's single instance
    other,            \* a second execute request of the same process: position and driver
    catalog,          \* the component templates the database holds, by name
    requests          \* the create_template and compose_templates requests served so far

vars == <<template_name, store, parameters, pc, driver, template_info, record, composition_type,
          components, idx, results, context, trace, calls, response, memo, run, first,
          pool, connection, other, catalog, requests>>

(***************************************************************************)
(* Bounds and value domains                                                *)
(***************************************************************************)
MaxComponents == 2

Absent == "<absent>"
None == "<None>"

\* Keys of the dicts that occur: parameter names and record fields.
Keys == {"user_id", "relationship_type", "u"}

\* "#7" stands for a value that is not a str (an int sent as JSON number).
NonStrVals == {"#7"}
\* A str that is no identifier: it closes the relationship pattern and goes on.
Crafted == "FOLLOWS]->() DETACH DELETE u //"
Vals == {"42", "FOLLOWS", "7", "KNOWS", "n", Crafted} \cup NonStrVals

\* A dict is a total function with Absent for a missing key.
Dicts == [Keys -> Vals \cup {Absent}]
EmptyDict == [k \in Keys |-> Absent]
Has(d, k) == k \in Keys /\ d[k] # Absent
Put(d, k, v) == [d EXCEPT ![k] = v]
Pop(d, k) == [d EXCEPT ![k] = Absent]
Update(d, e) == [k \in Keys |-> IF e[k] # Absent THEN e[k] ELSE d[k]]
Dict1(k, v) == Put(EmptyDict, k, v)

Last(s) == s[Len(s)]
Range(seq) == {seq[i] : i \in 1..Len(seq)}

\* Query bodies are sequences of text pieces; RelToken is "$relationship_type".
RelToken == "$relationship_type"
QUser == <<"MATCH (u {id:", "$user_id", "}) RETURN u">>
QRel == <<"MATCH (u {id:", "$user_id", "})-[r:", "$relationship_type", "]->() RETURN r">>
NoQuery == <<>>

NoError == <<>>

(***************************************************************************)
(* Exceptions and responses                                                *)
(***************************************************************************)
HTTPException(status_code, detail) ==
    [type |-> "HTTPException", status_code |-> status_code, detail |-> detail]
BackendException ==
    [type |-> "Neo4jError", status_code |-> 0, detail |-> <<"backend error">>]
ValueError(component_name, name) ==
    [type |-> "ValueError", status_code |-> 0,
     detail |-> <<"Missing required parameter for ", component_name, ": ", name>>]
TypeError ==
    [type |-> "TypeError", status_code |-> 0,
     detail |-> <<"replace() argument 2 must be str">>]

StatusText(status_code) ==
    CASE status_code = 400 -> "400"
      [] status_code = 404 -> "404"
      [] status_code = 500 -> "500"
      [] OTHER -> "?"

\* str(e): a sequence of text pieces.
StrExc(e) ==
    IF e.type = "HTTPException"
    THEN <<StatusText(e.status_code), ": ">> \o e.detail
    ELSE e.detail

NoResponse ==
    [status |-> 0, kind |-> "none", detail |-> <<>>,
     composed_results |-> <<>>, result |-> <<>>, message |-> None]
ErrorResponse(status_code, detail) ==
    [NoResponse EXCEPT !.status = status_code, !.kind = "error", !.detail = detail]
ComposedResponse(res) ==
    [NoResponse EXCEPT !.status = 200, !.kind = "composed", !.composed_results = res]
SimpleResponse(records, message) ==
    [NoResponse EXCEPT !.status = 200, !.kind = "simple", !.result = records,
                       !.message = message]

\* except Exception as e: raise HTTPException(status_code=500, detail=str(e))
ExceptHandler(e) == ErrorResponse(500, StrExc(e))

(***************************************************************************)
(* ComposedQueryResult and the composition loop's helpers                  *)
(***************************************************************************)
ComposedQueryResult(name, records, error) ==
    [template_name |-> name, results |-> records, error |-> error]

RECURSIVE InsertByOrder(_, _)
InsertByOrder(sorted, c) ==
    IF sorted = <<>> THEN <<c>>
    ELSE IF Last(sorted).order <= c.order THEN Append(sorted, c)
    ELSE Append(InsertByOrder(SubSeq(sorted, 1, Len(sorted) - 1), c), Last(sorted))

RECURSIVE SortFrom(_, _, _)
SortFrom(seq, i, acc) ==
    IF i > Len(seq) THEN acc ELSE SortFrom(seq, i + 1, InsertByOrder(acc, seq[i]))

\* Faulty variant of SortByOrder: the components are run as the store returned them.
Unsorted(seq) == seq
\* sorted(record["components"], key=lambda x: x["order"]) (stable)
SortByOrder(seq) == SortFrom(seq, 1, <<>>)

NotFound == [found |-> FALSE, value |-> Absent]
Found(v) == [found |-> TRUE, value |-> v]

\* Faulty variant of SequenceLookup: previous_result reads the carried-forward context.
SequenceLookupFromContext(param, input, res, ctx) ==
    IF param.source = "input" /\ Has(input, param.name)
    THEN Found(input[param.name])
    ELSE IF param.source = "previous_result" /\ Has(ctx, param.name)
    THEN Found(ctx[param.name])
    ELSE NotFound

\* SEQUENCE branch: where one parameter's value comes from.
SequenceLookup(param, input, res, ctx) ==
    IF param.source = "input" /\ Has(input, param.name)
    THEN Found(input[param.name])
    ELSE IF param.source = "previous_result"
    THEN IF res # <<>> /\ Last(res).results # <<>>
            /\ Has(Last(res).results[1], param.name)
         THEN Found(Last(res).results[1][param.name])
         ELSE NotFound
    ELSE NotFound

\* Faulty variant of ParallelLookup: previous_result reads the latest result, as the
\* SEQUENCE branch does.
ParallelLookupFromPrior(param, input, res, ctx) ==
    IF param.source = "input" /\ Has(input, param.name)
    THEN Found(input[param.name])
    ELSE IF param.source = "previous_result"
    THEN IF res # <<>> /\ Last(res).results # <<>>
            /\ Has(Last(res).results[1], param.name)
         THEN Found(Last(res).results[1][param.name])
         ELSE NotFound
    ELSE NotFound

\* PARALLEL branch.
ParallelLookup(param, input, res, ctx) ==
    IF param.source = "input" /\ Has(input, param.name)
    THEN Found(input[param.name])
    ELSE IF param.source = "previous_result" /\ Has(ctx, param.name)
    THEN Found(ctx[param.name])
    ELSE NotFound

\* if composition_type == "SEQUENCE": ... else:  # PARALLEL
\* Faulty variant of Lookup: a missing composition_type selects the SEQUENCE branch.
LookupSequenceByDefault(ctype, param, input, res, ctx) ==
    IF ctype \in {"SEQUENCE", None} THEN SequenceLookup(param, input, res, ctx)
    ELSE ParallelLookup(param, input, res, ctx)
Lookup(ctype, param, input, res, ctx) ==
    IF ctype = "SEQUENCE" THEN SequenceLookup(param, input, res, ctx)
    ELSE ParallelLookup(param, input, res, ctx)

\* if required and name not in exec_params: raise ValueError(...)
MissingRequired(param, exec_params) ==
    param.required /\ ~Has(exec_params, param.name)

\* The for loop over component_params; stops at the first raise.
RECURSIVE ResolveLoop(_, _, _, _, _, _, _)
ResolveLoop(ctype, component_params, input, res, ctx, i, st) ==
    IF i > Len(component_params) THEN st
    ELSE LET param == component_params[i]
             f == Lookup(ctype, param, input, res, ctx)
             exec1 == IF f.found THEN Put(st.exec_params, param.name, f.value)
                      ELSE st.exec_params
             binds1 == IF f.found
                       THEN Append(st.binds, [param |-> i, name |-> param.name,
                                              source |-> param.source, value |-> f.value])
                       ELSE st.binds
         IN IF MissingRequired(param, exec1)
            THEN [ok |-> FALSE, exec_params |-> exec1, binds |-> binds1,
                  missing |-> param.name]
            ELSE ResolveLoop(ctype, component_params, input, res, ctx, i + 1,
                             [ok |-> TRUE, exec_params |-> exec1, binds |-> binds1,
                              missing |-> None])

\* exec_params = {} and the loop over the declared parameters.
\* Faulty variant of Resolve: exec_params starts as a copy of the caller's input.
ResolveFromInput(ctype, component_params, input, res, ctx) ==
    ResolveLoop(ctype, component_params, input, res, ctx, 1,
                [ok |-> TRUE, exec_params |-> input, binds |-> <<>>, missing |-> None])
Resolve(ctype, component_params, input, res, ctx) ==
    ResolveLoop(ctype, component_params, input, res, ctx, 1,
                [ok |-> TRUE, exec_params |-> EmptyDict, binds |-> <<>>, missing |-> None])

Contains(query, token) == \E i \in 1..Len(query) : query[i] = token
Replace(query, token, value) ==
    [i \in 1..Len(query) |-> IF query[i] = token THEN value ELSE query[i]]

\* Special handling for relationship type substitution.
\* Faulty variant of RenderQuery: every $name placeholder of a supplied
\* parameter is replaced by its value in the text.
RenderQueryEveryName(query, exec_params) ==
    LET token == [k \in Keys |->
                    CASE k = "user_id" -> "$user_id"
                      [] k = "relationship_type" -> RelToken
                      [] OTHER -> "$u"]
        Named(piece) == {k \in Keys : Has(exec_params, k) /\ token[k] = piece}
    IN [ok |-> TRUE,
        query |-> [i \in 1..Len(query) |->
                     IF Named(query[i]) # {}
                     THEN exec_params[CHOOSE k \in Named(query[i]) : TRUE]
                     ELSE query[i]],
        exec_params |-> exec_params]
RenderQuery(query, exec_params) ==
    IF Contains(query, RelToken) /\ Has(exec_params, "relationship_type")
    THEN IF exec_params["relationship_type"] \in NonStrVals
         THEN [ok |-> FALSE, query |-> query, exec_params |-> exec_params]
         ELSE [ok |-> TRUE,
               query |-> Replace(query, RelToken, exec_params["relationship_type"]),
               exec_params |-> Pop(exec_params, "relationship_type")]
    ELSE [ok |-> TRUE, query |-> query, exec_params |-> exec_params]

\* Faulty variant of ContextAfter: the PARALLEL branch updates the context as well.
ContextAfterAlways(ctype, ctx, component_results) ==
    IF component_results # <<>> THEN Update(ctx, component_results[1]) ELSE ctx

\* context.update(component_results[0]) happens in the SEQUENCE branch only.
ContextAfter(ctype, ctx, component_results) ==
    IF ctype = "SEQUENCE" /\ component_results # <<>>
    THEN Update(ctx, component_results[1])
    ELSE ctx

\* Faulty variant of ExceptComponent: the failure is appended without its error.
ExceptComponentUnset(res, name, e) ==
    Append(res, ComposedQueryResult(name, <<>>, NoError))

\* Faulty variant of ExceptComponent: the failed component's entry carries the
\* records of the entry before it.
ExceptComponentStaleRecords(res, name, e) ==
    Append(res, ComposedQueryResult(name, IF res = <<>> THEN <<>> ELSE Last(res).results,
                                    StrExc(e)))

\* except Exception as e: results.append(ComposedQueryResult(..., error=str(e)))
ExceptComponent(res, name, e) ==
    Append(res, ComposedQueryResult(name, <<>>, StrExc(e)))

\* results.append(ComposedQueryResult(template_name=..., results=component_results))
AppendSuccess(res, name, component_results) ==
    Append(res, ComposedQueryResult(name, component_results, NoError))

(***************************************************************************)
(* The store: what the database can hold under the requested name          *)
(***************************************************************************)
Param(name, source, required) ==
    [name |-> name, source |-> source, required |-> required]

\* Parameter lists of components that chain on user_id. The fifth declares
\* user_id twice (two Parameter nodes of one template with the same name).
ChainLists ==
    { <<>>,
      <<Param("user_id", "input", TRUE)>>,
      <<Param("user_id", "input", FALSE)>>,
      <<Param("user_id", "previous_result", TRUE)>>,
      <<Param("user_id", "previous_result", FALSE)>>,
      <<Param("user_id", "input", TRUE), Param("user_id", "previous_result", TRUE)>> }

ChainCfgs == {[query |-> QUser, parameters |-> pl] : pl \in ChainLists}

\* Components that use the relationship placeholder.
RenderCfgs ==
    { [query |-> QRel, parameters |-> <<Param("relationship_type", "input", TRUE)>>],
      [query |-> QRel, parameters |-> <<Param("user_id", "input", TRUE),
                                        Param("relationship_type", "input", FALSE)>>],
      [query |-> QRel, parameters |-> <<Param("relationship_type", "previous_result", TRUE)>>],
      [query |-> QUser, parameters |-> <<Param("relationship_type", "input", TRUE)>>],
      [query |-> QRel, parameters |-> <<Param("user_id", "input", TRUE),
                                        Param("user_id", "previous_result", TRUE),
                                        Param("relationship_type", "input", TRUE)>>] }

Producer == [query |-> QUser, parameters |-> <<>>]

CompNames == <<"find_user", "count_relationships", "find_items", "find_friends">>

\* Order values: the permutations of 0..k-1 over the k COMPOSES edges.
Orders(k) == {p \in [1..k -> 0..(k - 1)] : \A i, j \in 1..k : p[i] = p[j] => i = j}
\* The order values the stored chains carry: ascending, rotated by one and
\* descending (every permutation, for up to two components).
StoredOrders(k) ==
    {p \in Orders(k) :
        \/ \E s \in {0, 1} : \A i \in 1..k : p[i] = (i - 1 + s) % k
        \/ \A i \in 1..k : p[i] = k - i}

Component(i, cfg, order) ==
    [name |-> CompNames[i], query |-> cfg.query, order |-> order,
     parameters |-> cfg.parameters]

ChainComponents ==
    UNION {{[i \in 1..k |-> Component(i, c[i], p[i])] :
              c \in [1..k -> ChainCfgs], p \in StoredOrders(k)} : k \in 1..MaxComponents}

RenderComponents ==
    {<<Component(1, r, 0)>> : r \in RenderCfgs}
    \cup {<<Component(1, Producer, p[1]), Component(2, r, p[2])>> :
              r \in RenderCfgs, p \in Orders(2)}

CompositionTypes == {"SEQUENCE", "PARALLEL"}
\* What the composition_type property of a stored composition can be: one of
\* the two, absent (None), or any other string.
StoredTypes == CompositionTypes \cup {None, "sequence"}

NoTemplate ==
    [kind |-> "none", query |-> NoQuery, composition_type |-> None,
     components |-> <<>>, parameters |-> <<>>]
ComposedTemplate(ctype, comps) ==
    [NoTemplate EXCEPT !.kind = "composed", !.composition_type = ctype,
                       !.components = comps]
SimpleTemplate(query, params) ==
    [NoTemplate EXCEPT !.kind = "simple", !.query = query, !.parameters = params]

SimpleNames == {"find_user", "find_user_items", "find_user_relationships"}
SimpleQueries == {NoQuery, QUser, QRel}
SimpleLists ==
    { <<>>,
      <<Param("user_id", "input", TRUE)>>,
      <<Param("user_id", "input", TRUE), Param("relationship_type", "input", TRUE)>> }

\* Caller inputs.
ChainInputs == {EmptyDict, Dict1("user_id", "42")}
RenderInputs ==
    {Put(d, "relationship_type", v) : d \in ChainInputs, v \in {Absent, "FOLLOWS", "#7", Crafted}}

\* Backend answers: an exception, or a list of records.
RecU == Dict1("u", "n")
RecId == Put(Dict1("user_id", "7"), "relationship_type", "KNOWS")
Raised == [raised |-> TRUE, records |-> <<>>]
Returned(records) == [raised |-> FALSE, records |-> records]
Answers == {Raised} \cup {Returned(r) : r \in {<<>>, <<RecU>>, <<RecId>>, <<RecU, RecId>>}}

\* fetched: the lookup has answered; found: result.single() is not None.
NoInfo == [fetched |-> FALSE, found |-> FALSE, is_composed |-> FALSE, query |-> NoQuery]
NoRecord == [fetched |-> FALSE, found |-> FALSE, type |-> None, components |-> <<>>]

\* MATCH (t:Template {name: $template_name})
\* RETURN exists((t)-[:COMPOSES]->()) as is_composed, t.cypher_query as query
TemplateLookup(st) ==
    IF st.kind = "none" THEN [NoInfo EXCEPT !.fetched = TRUE]
    ELSE [fetched |-> TRUE, found |-> TRUE, is_composed |-> (st.kind = "composed"),
          query |-> st.query]

\* collect({name: param.name, required: param.required,
\*          source: coalesce(param.source, "input")}) as params
\* For a component without Parameter nodes the OPTIONAL MATCH binds param to
\* null and collect() still gets one map: name and required null, source
\* "input". `if required and ...` takes the null as false.
NullParameter ==
    [name |-> None, source |-> "input", required |-> FALSE, null |-> {"name", "required"}]
\* Faulty variant of LoadParameters: the entry of a component without
\* parameters counts as required.
LoadParametersNullRequired(stored) ==
    IF stored = <<>> THEN <<[NullParameter EXCEPT !.required = TRUE]>>
    ELSE [j \in 1..Len(stored) |->
             [stored[j] EXCEPT !.source = IF @ = None THEN "input" ELSE @]]
LoadParameters(stored) ==
    IF stored = <<>> THEN <<NullParameter>>
    ELSE [j \in 1..Len(stored) |->
             [stored[j] EXCEPT !.source = IF @ = None THEN "input" ELSE @]]

\* The composition query of execute_composed_template.
CompositionLookup(st) ==
    IF st.kind = "composed" /\ st.components # <<>>
    THEN [fetched |-> TRUE, found |-> TRUE, type |-> st.composition_type,
          components |->
              [i \in 1..Len(st.components) |->
                  [st.components[i] EXCEPT !.parameters = LoadParameters(@)]]]
    ELSE [NoRecord EXCEPT !.fetched = TRUE]

\* get_template: what it reports as the composition type of a template with
\* components.
get_template(st) ==
    [found |-> st.kind # "none",
     composition_type |-> IF st.composition_type = None THEN "SEQUENCE"
                          ELSE st.composition_type]

\* Driver objects are numbered in the order of their creation.
NoDriver == 0
Idle == [pc |-> "idle", driver |-> NoDriver]
NoDrivers ==
    /\ pool = <<>>
    /\ connection = NoDriver
    /\ other = Idle

\* The templates that create_template can add, and the state before any
\* create_template or compose_templates request.
BuildNames == {CompNames[i] : i \in 1..MaxComponents}
NoRequests ==
    [create |-> [n \in BuildNames |-> [sent |-> FALSE, parameters |-> <<>>]],
     compose |-> [sent |-> FALSE, templates |-> <<>>, status |-> None]]
NothingBuilt ==
    /\ catalog = [n \in BuildNames |-> NoTemplate]
    /\ requests = NoRequests

Locals ==
    /\ pc = "start"
    /\ driver = NoDriver
    /\ template_info = NoInfo
    /\ record = NoRecord
    /\ composition_type = None
    /\ components = <<>>
    /\ idx = 0
    /\ results = <<>>
    /\ context = EmptyDict
    /\ trace = <<>>
    /\ calls = <<>>
    /\ response = NoResponse

InitChain(ctypes) ==
    /\ template_name = "chain1"
    /\ \E ctype \in ctypes, comps \in ChainComponents :
           store = ComposedTemplate(ctype, comps)
    /\ parameters \in ChainInputs

InitRender(ctypes) ==
    /\ template_name = "chain1"
    /\ \E ctype \in ctypes, comps \in RenderComponents :
           store = ComposedTemplate(ctype, comps)
    /\ parameters \in RenderInputs

InitSimple ==
    /\ template_name \in SimpleNames
    /\ \E q \in SimpleQueries, pl \in SimpleLists : store = SimpleTemplate(q, pl)
    /\ parameters \in RenderInputs

InitMissing ==
    /\ template_name = "no_such_template"
    /\ store = NoTemplate
    /\ parameters \in ChainInputs

Init ==
    /\ \/ InitChain(CompositionTypes)
       \/ InitRender(StoredTypes)
       \/ InitSimple
       \/ InitMissing
    /\ Locals
    /\ memo = {}
    /\ run = 1
    /\ first = NoResponse
    /\ NoDrivers
    /\ NothingBuilt

\* The requests whose progress is checked: as Init, with the chains taken
\* from components that declare at most one parameter, a required one.
RequiredLists == {pl \in ChainLists : Len(pl) <= 1 /\ \A j \in 1..Len(pl) : pl[j].required}
InitRequiredChain(ctypes) ==
    /\ template_name = "chain1"
    /\ \E ctype \in ctypes :
       \E comps \in {c \in ChainComponents :
                        \A i \in 1..Len(c) : c[i].parameters \in RequiredLists} :
           store = ComposedTemplate(ctype, comps)
    /\ parameters \in ChainInputs
InitFair ==
    /\ \/ InitRequiredChain(CompositionTypes)
       \/ InitRender(CompositionTypes)
       \/ InitSimple
       \/ InitMissing
    /\ Locals
    /\ memo = {}
    /\ run = 1
    /\ first = NoResponse
    /\ NoDrivers
    /\ NothingBuilt

\* The requests that are executed twice: PARALLEL compositions and simple
\* templates.
InitRepeat ==
    /\ \/ InitChain({"PARALLEL"})
       \/ InitRender({"PARALLEL"})
       \/ InitSimple
    /\ Locals
    /\ memo = {}
    /\ run = 1
    /\ first = NoResponse
    /\ NoDrivers
    /\ NothingBuilt

(***************************************************************************)
(* The backend                                                             *)
(***************************************************************************)
\* A deterministic backend answers a repeated (query, bound) as it did before.
BackendAnswers(det, query, bound) ==
    IF det /\ \E m \in memo : m.query = query /\ m.bound = bound
    THEN {m.answer : m \in {n \in memo : n.query = query /\ n.bound = bound}}
    ELSE Answers

Remember(det, query, bound, a) ==
    IF det THEN memo \cup {[query |-> query, bound |-> bound, answer |-> a]} ELSE memo

\* One session.run of a template query: the stored query body and the values
\* supplied for it, and the query text and bound parameters actually sent.
Call(name, stored, supplied, query, bound) ==
    [template |-> name, stored |-> stored, supplied |-> supplied,
     query |-> query, bound |-> bound]

\* The session a request's queries run on: the one opened by
\* `with driver.session() as session`, whatever the number n of the call.
SessionPerCall(request, n) == <<request, n>>
SessionFor(request, n) == <<request, 0>>

\* A call as the backend saw it: the session it arrived on, how many component
\* results the request had appended by then, and the backend's answer.
Issued(call, session, appended, a) ==
    [template |-> call.template, stored |-> call.stored, supplied |-> call.supplied,
     query |-> call.query, bound |-> call.bound,
     session |-> session, appended |-> appended, answer |-> a]

(***************************************************************************)
(* execute_template                                                        *)
(***************************************************************************)
\* GraphDatabase.driver(...): a new driver object, open.
NewDriver == [state |-> "open", closes |-> 0]
\* driver.close()
DriverClose(p, d) == [p EXCEPT ![d] = [state |-> "closed", closes |-> @.closes + 1]]

\* Neo4jConnection.connect: self.driver = GraphDatabase.driver(...); return self.driver
\* Faulty variant of connect: the instance hands out the driver it already
\* holds while that driver is open.
connectCached(p, c) ==
    IF c # NoDriver /\ p[c].state = "open"
    THEN [pool |-> p, connection |-> c, driver |-> c]
    ELSE [pool |-> Append(p, NewDriver), connection |-> Len(p) + 1, driver |-> Len(p) + 1]
connect(p, c) ==
    [pool |-> Append(p, NewDriver), connection |-> Len(p) + 1, driver |-> Len(p) + 1]

\* finally: if driver: driver.close()
\* Faulty variant of Finally: the driver is closed at the end of the try block,
\* which an exception skips.
FinallyUnlessRaised(p, d) ==
    IF d # NoDriver /\ response.kind # "error" THEN DriverClose(p, d) ELSE p
Finally(p, d) == IF d # NoDriver THEN DriverClose(p, d) ELSE p

\* driver = neo4j_connection.connect()
Connect ==
    /\ pc = "start"
    /\ \/ /\ LET c == connect(pool, connection)
             IN /\ pool' = c.pool
                /\ connection' = c.connection
                /\ driver' = c.driver
          /\ pc' = "lookup"
          /\ UNCHANGED response
       \/ /\ response' = ExceptHandler(BackendException)
          /\ pc' = "finally"
          /\ UNCHANGED <<driver, pool, connection>>
    /\ UNCHANGED <<template_name, store, parameters, template_info, record,
                   composition_type, components, idx, results, context, trace,
                   calls, memo, run, first, other, catalog, requests>>

\* The first session.run of execute_template and the not-found check.
LookupTemplate ==
    /\ pc = "lookup"
    /\ \/ /\ response' = ExceptHandler(BackendException)
          /\ pc' = "finally"
          /\ UNCHANGED template_info
       \/ /\ template_info' = TemplateLookup(store)
          /\ IF ~template_info'.found
             THEN /\ response' = ExceptHandler(HTTPException(404, <<"Template not found">>))
                  /\ pc' = "finally"
             ELSE /\ pc' = IF template_info'.is_composed THEN "composed" ELSE "simple"
                  /\ UNCHANGED response
    /\ UNCHANGED <<template_name, store, parameters, driver, record,
                   composition_type, components, idx, results, context, trace,
                   calls, memo, run, first, pool, connection, other, catalog, requests>>

\* execute_composed_template up to the loop: the composition query, the
\* not-found check, the sort and the copy of the input into context.
LoadComposition ==
    /\ pc = "composed"
    /\ \/ /\ response' = ExceptHandler(BackendException)
          /\ pc' = "finally"
          /\ UNCHANGED <<record, composition_type, components, idx, results, context>>
       \/ /\ record' = CompositionLookup(store)
          /\ IF ~record'.found
             THEN /\ response' =
                         ExceptHandler(HTTPException(404, <<"Composed template not found">>))
                  /\ pc' = "finally"
                  /\ UNCHANGED <<composition_type, components, idx, results, context>>
             ELSE /\ composition_type' = record'.type
                  /\ components' = SortByOrder(record'.components)
                  /\ results' = <<>>
                  /\ context' = parameters
                  /\ idx' = 1
                  /\ pc' = "loop"
                  /\ UNCHANGED response
    /\ UNCHANGED <<template_name, store, parameters, driver, template_info, trace,
                   calls, memo, run, first, pool, connection, other, catalog, requests>>

\* What one loop iteration did: the assignments to exec_params, how the
\* iteration ended and the result it appended.
Step(component, r, outcome, res) ==
    [component |-> component.name, binds |-> r.binds, exec_params |-> r.exec_params,
     outcome |-> outcome, result |-> Last(res)]

\* for component in components: the position of the next iteration, however
\* the current one ended.
\* Faulty variant of NextIndex: the loop stops at the first component error.
NextIndexAbortOnError(i, outcome, comps) ==
    IF outcome = "ok" THEN i + 1 ELSE Len(comps) + 1
\* Faulty variant of NextIndex: a component that ended with an error is run again.
NextIndexRetry(i, outcome, comps) ==
    IF outcome = "raised" /\ Len(calls) < Len(comps) + 1 THEN i ELSE i + 1
NextIndex(i, outcome, comps) == i + 1

\* One iteration of the for loop over components (either branch).
RunComponent(det) ==
    /\ pc = "loop"
    /\ idx \in 1..Len(components)
    /\ LET component == components[idx]
           r == Resolve(composition_type, component.parameters, parameters,
                        results, context)
           q == RenderQuery(component.query, r.exec_params)
       IN IF ~r.ok
          THEN /\ results' = ExceptComponent(results, component.name,
                                             ValueError(component.name, r.missing))
               /\ trace' = Append(trace, Step(component, r, "missing", results'))
               /\ UNCHANGED <<context, calls, memo>>
          ELSE IF ~q.ok
          THEN /\ results' = ExceptComponent(results, component.name, TypeError)
               /\ trace' = Append(trace, Step(component, r, "type_error", results'))
               /\ UNCHANGED <<context, calls, memo>>
          ELSE \E a \in BackendAnswers(det, q.query, q.exec_params) :
               /\ calls' = Append(calls,
                      Issued(Call(component.name, component.query, r.exec_params,
                                  q.query, q.exec_params),
                             SessionFor(run, Len(calls) + 1), Len(results), a))
               /\ memo' = Remember(det, q.query, q.exec_params, a)
               /\ IF a.raised
                  THEN /\ results' = ExceptComponent(results, component.name,
                                                     BackendException)
                       /\ trace' = Append(trace, Step(component, r, "raised", results'))
                       /\ UNCHANGED context
                  ELSE /\ context' = ContextAfter(composition_type, context, a.records)
                       /\ results' = AppendSuccess(results, component.name, a.records)
                       /\ trace' = Append(trace, Step(component, r, "ok", results'))
    /\ idx' = NextIndex(idx, Last(trace').outcome, components)
    /\ UNCHANGED <<template_name, store, parameters, pc, driver, template_info, record,
                   composition_type, components, response, run, first, pool, connection, other, catalog, requests>>

\* return results; return {"composed_results": [...]}
ReturnComposed ==
    /\ pc = "loop"
    /\ idx > Len(components)
    /\ response' = ComposedResponse(results)
    /\ pc' = "finally"
    /\ UNCHANGED <<template_name, store, parameters, driver, template_info, record,
                   composition_type, components, idx, results, context, trace,
                   calls, memo, run, first, pool, connection, other, catalog, requests>>

QItems == <<"MATCH (u:User {id: ", "$user_id", "})-[:OWNS]->(i:Item) RETURN i as items">>
\* The f-string formats any value, a str or not.
Format(v) == IF v = "#7" THEN "7" ELSE v
QRelationships(relationship_type) ==
    <<"MATCH (u:User {id: ", "$user_id", "}) OPTIONAL MATCH (u)-[r:",
      Format(relationship_type), "]->(other:User) RETURN u, collect(r), count(r)">>

\* What the simple branch does before it calls the backend: a raise, or the
\* query to run and the message for an empty result.
\* Faulty variant of SimplePlan: the generic branch substitutes the
\* relationship placeholder as the composed branches do.
SimplePlanRendered(name, info, input) ==
    IF info.query = NoQuery
    THEN [raise |-> TRUE, exc |-> HTTPException(400, <<"Template has no query defined">>),
          query |-> NoQuery, message |-> None]
    ELSE IF name = "find_user_items"
    THEN [raise |-> FALSE, exc |-> BackendException, query |-> QItems,
          message |-> "No items found for this user"]
    ELSE IF name = "find_user_relationships"
    THEN IF ~Has(input, "relationship_type")
         THEN [raise |-> TRUE,
               exc |-> HTTPException(400, <<"Relationship type is required">>),
               query |-> NoQuery, message |-> None]
         ELSE [raise |-> FALSE, exc |-> BackendException,
               query |-> QRelationships(input["relationship_type"]),
               message |-> "No relationships found for this user"]
    ELSE [raise |-> FALSE, exc |-> BackendException,
          query |-> IF Has(input, "relationship_type")
                    THEN Replace(info.query, RelToken, Format(input["relationship_type"]))
                    ELSE info.query,
          message |-> "No results found"]
SimplePlan(name, info, input) ==
    IF info.query = NoQuery
    THEN [raise |-> TRUE, exc |-> HTTPException(400, <<"Template has no query defined">>),
          query |-> NoQuery, message |-> None]
    ELSE IF name = "find_user_items"
    THEN [raise |-> FALSE, exc |-> BackendException, query |-> QItems,
          message |-> "No items found for this user"]
    ELSE IF name = "find_user_relationships"
    THEN IF ~Has(input, "relationship_type")
         THEN [raise |-> TRUE,
               exc |-> HTTPException(400, <<"Relationship type is required">>),
               query |-> NoQuery, message |-> None]
         ELSE [raise |-> FALSE, exc |-> BackendException,
               query |-> QRelationships(input["relationship_type"]),
               message |-> "No relationships found for this user"]
    ELSE [raise |-> FALSE, exc |-> BackendException, query |-> info.query,
          message |-> "No results found"]

\* records = [record.data() for record in result]; if not records: ... return
\* Faulty variant of SimpleResult: an empty result is answered as not found.
SimpleResultEmptyIsError(records, message) ==
    IF records = <<>> THEN ErrorResponse(404, <<message>>)
    ELSE SimpleResponse(records, None)
\* Faulty variant of SimpleResult: a cursor kept between requests, so that a
\* repeated request is answered with the records after the first one.
SimpleResultResumed(records, message) ==
    LET rest == IF run = 1 \/ records = <<>> THEN records ELSE Tail(records)
    IN IF rest = <<>> THEN SimpleResponse(<<>>, message)
       ELSE SimpleResponse(rest, None)
SimpleResult(records, message) ==
    IF records = <<>> THEN SimpleResponse(<<>>, message)
    ELSE SimpleResponse(records, None)

\* The else branch of execute_template: a single template.
ExecuteSimple(det) ==
    /\ pc = "simple"
    /\ LET plan == SimplePlan(template_name, template_info, parameters)
       IN IF plan.raise
          THEN /\ response' = ExceptHandler(plan.exc)
               /\ UNCHANGED <<calls, memo>>
          ELSE \E a \in BackendAnswers(det, plan.query, parameters) :
               /\ calls' = Append(calls,
                      Issued(Call(template_name, template_info.query, parameters,
                                  plan.query, parameters),
                             SessionFor(run, Len(calls) + 1), Len(results), a))
               /\ memo' = Remember(det, plan.query, parameters, a)
               /\ response' =
                     IF a.raised THEN ExceptHandler(BackendException)
                     ELSE SimpleResult(a.records, plan.message)
    /\ pc' = "finally"
    /\ UNCHANGED <<template_name, store, parameters, driver, template_info, record,
                   composition_type, components, idx, results, context, trace,
                   run, first, pool, connection, other, catalog, requests>>

\* The finally clause of execute_template, after which the request has returned.
CloseDriver ==
    /\ pc = "finally"
    /\ pool' = Finally(pool, driver)
    /\ pc' = "done"
    /\ UNCHANGED <<template_name, store, parameters, driver, template_info, record,
                   composition_type, components, idx, results, context, trace,
                   calls, response, memo, run, first, connection, other, catalog, requests>>

\* A delete_template request for the same name, served while this request
\* still has a read of the store ahead of it.
DeleteTemplate ==
    /\ pc \in {"start", "lookup", "composed"}
    /\ store.kind # "none"
    /\ store' = NoTemplate
    /\ UNCHANGED <<template_name, parameters, pc, driver, template_info, record,
                   composition_type, components, idx, results, context, trace,
                   calls, response, memo, run, first, pool, connection, other, catalog, requests>>

Next ==
    \/ Connect
    \/ LookupTemplate
    \/ LoadComposition
    \/ RunComponent(FALSE)
    \/ ReturnComposed
    \/ ExecuteSimple(FALSE)
    \/ CloseDriver
    \/ DeleteTemplate

Spec == Init /\ [][Next]_vars

\* The request is sequential code: a step of it that can be taken is taken.
\* Every backend call is taken to answer or raise (a call that never returns
\* is outside the model).
Fairness ==
    /\ WF_vars(Connect)
    /\ WF_vars(LookupTemplate)
    /\ WF_vars(LoadComposition)
    /\ WF_vars(RunComponent(FALSE))
    /\ WF_vars(ReturnComposed)
    /\ WF_vars(ExecuteSimple(FALSE))
    /\ WF_vars(CloseDriver)
SpecFair == InitFair /\ [][Next]_vars /\ Fairness

(***************************************************************************)
(* Two requests in a row against a backend whose answers depend only on    *)
(* the query and the bound parameters. Between them the order values of    *)
(* the composition's COMPOSES edges may be permuted.                       *)
(***************************************************************************)
Reordered(st) ==
    IF st.kind = "composed"
    THEN {[st EXCEPT !.components =
                [i \in 1..Len(st.components) |->
                    [st.components[i] EXCEPT !.order = p[i]]]] :
             p \in Orders(Len(st.components))}
    ELSE {st}

Repeat ==
    /\ pc = "done"
    /\ run = 1
    /\ run' = 2
    /\ first' = response
    /\ store' \in Reordered(store)
    /\ pc' = "start"
    /\ driver' = NoDriver
    /\ template_info' = NoInfo
    /\ record' = NoRecord
    /\ composition_type' = None
    /\ components' = <<>>
    /\ idx' = 0
    /\ results' = <<>>
    /\ context' = EmptyDict
    /\ trace' = <<>>
    /\ calls' = <<>>
    /\ response' = NoResponse
    /\ UNCHANGED <<template_name, parameters, memo, pool, connection, other,
                   catalog, requests>>

NextRepeat ==
    \/ Connect
    \/ LookupTemplate
    \/ LoadComposition
    \/ RunComponent(TRUE)
    \/ ReturnComposed
    \/ ExecuteSimple(TRUE)
    \/ CloseDriver
    \/ Repeat

SpecRepeat == InitRepeat /\ [][NextRepeat]_vars

(***************************************************************************)
(* Two execute requests of one process whose steps interleave: the one the *)
(* model follows step by step, and a second one that connects, runs its    *)
(* query and closes its driver.                                            *)
(***************************************************************************)
\* The other request's driver = neo4j_connection.connect()
OtherConnect ==
    /\ other.pc = "idle"
    /\ LET c == connect(pool, connection)
       IN /\ pool' = c.pool
          /\ connection' = c.connection
          /\ other' = [pc |-> "connected", driver |-> c.driver]
    /\ UNCHANGED <<template_name, store, parameters, pc, driver, template_info, record,
                   composition_type, components, idx, results, context, trace,
                   calls, response, memo, run, first, catalog, requests>>

\* The other request's session.run calls, on a session of its own driver.
OtherRun ==
    /\ other.pc = "connected"
    /\ other' = [other EXCEPT !.pc = "finally"]
    /\ UNCHANGED <<template_name, store, parameters, pc, driver, template_info, record,
                   composition_type, components, idx, results, context, trace,
                   calls, response, memo, run, first, pool, connection, catalog, requests>>

\* The other request's finally clause.
OtherClose ==
    /\ other.pc = "finally"
    /\ pool' = Finally(pool, other.driver)
    /\ other' = [other EXCEPT !.pc = "done"]
    /\ UNCHANGED <<template_name, store, parameters, pc, driver, template_info, record,
                   composition_type, components, idx, results, context, trace,
                   calls, response, memo, run, first, connection, catalog, requests>>

InitTwo ==
    /\ \/ InitRender(CompositionTypes)
       \/ InitSimple
       \/ InitMissing
    /\ Locals
    /\ memo = {}
    /\ run = 1
    /\ first = NoResponse
    /\ NoDrivers
    /\ NothingBuilt

NextTwo ==
    \/ Connect
    \/ LookupTemplate
    \/ LoadComposition
    \/ RunComponent(FALSE)
    \/ ReturnComposed
    \/ ExecuteSimple(FALSE)
    \/ CloseDriver
    \/ OtherConnect
    \/ OtherRun
    \/ OtherClose

SpecTwo == InitTwo /\ [][NextTwo]_vars

(***************************************************************************)
(* A composition built through the endpoints: create_template for the      *)
(* components, compose_templates for the composition, and then the execute *)
(* request.                                                                *)
(***************************************************************************)
\* The parameter lists a create_template request can carry. The body is
\* parsed into ParameterModel, which has no source field; a source sent by
\* the caller is part of the request only.
RequestLists == {<<>>, <<Param("user_id", "previous_result", TRUE)>>}

\* MERGE (p:Parameter {name, type, description, required})
\* Faulty variant of StoreParameter: the source sent by the caller is stored.
StoreParameterWithSource(param) == Param(param.name, param.source, param.required)
StoreParameter(param) == Param(param.name, None, param.required)

\* A request served by another handler: it connects and closes its driver.
Served(p, c) ==
    LET made == connect(p, c)
    IN [pool |-> Finally(made.pool, made.driver), connection |-> made.connection]

CreateTemplate ==
    /\ pc = "start" /\ driver = NoDriver
    /\ ~requests.compose.sent
    /\ \E n \in BuildNames, pl \in RequestLists :
          /\ ~requests.create[n].sent
          /\ requests' = [requests EXCEPT !.create[n] = [sent |-> TRUE, parameters |-> pl]]
          /\ catalog' = [catalog EXCEPT ![n] =
                            SimpleTemplate(QUser, [j \in 1..Len(pl) |-> StoreParameter(pl[j])])]
    /\ pool' = Served(pool, connection).pool
    /\ connection' = Served(pool, connection).connection
    /\ UNCHANGED <<template_name, store, parameters, pc, driver, template_info, record,
                   composition_type, components, idx, results, context, trace,
                   calls, response, memo, run, first, other>>

\* The lists of distinct names a compose_templates request can carry
\* (min_length=2), and the orders in which MATCH ... WHERE t.name IN $templates
\* can return the matched nodes: the query has no ORDER BY.
RECURSIVE Arrangements(_)
Arrangements(names) ==
    IF names = {} THEN {<<>>}
    ELSE UNION {{<<n>> \o rest : rest \in Arrangements(names \ {n})} : n \in names}
TemplateLists ==
    UNION {Arrangements(names) : names \in {ns \in SUBSET (BuildNames \cup {"no_such_template"}) :
                                               Cardinality(ns) >= 2}}
MatchOrders(templates) == Arrangements(Range(templates))

\* UNWIND range(0, size(templates)-1) as i
\* CREATE (composed)-[:COMPOSES {order: i}]->(templates[i])
Composes(matched) ==
    [i \in 1..Len(matched) |->
        [name |-> matched[i], query |-> catalog[matched[i]].query, order |-> i - 1,
         parameters |-> catalog[matched[i]].parameters]]

ComposeTemplates ==
    /\ pc = "start" /\ driver = NoDriver
    /\ ~requests.compose.sent
    /\ \E templates \in TemplateLists :
          IF \A i \in 1..Len(templates) :
                 templates[i] \in BuildNames /\ catalog[templates[i]].kind # "none"
          THEN \E ctype \in CompositionTypes, matched \in MatchOrders(templates) :
                  /\ store' = ComposedTemplate(ctype, Composes(matched))
                  /\ requests' = [requests EXCEPT !.compose =
                                     [sent |-> TRUE, templates |-> templates,
                                      status |-> "success"]]
          ELSE /\ requests' = [requests EXCEPT !.compose =
                                  [sent |-> TRUE, templates |-> templates,
                                   status |-> "error"]]
               /\ UNCHANGED store
    /\ pool' = Served(pool, connection).pool
    /\ connection' = Served(pool, connection).connection
    /\ UNCHANGED <<template_name, parameters, pc, driver, template_info, record,
                   composition_type, components, idx, results, context, trace,
                   calls, response, memo, run, first, other, catalog>>

InitBuild ==
    /\ template_name = "chain1"
    /\ store = NoTemplate
    /\ parameters \in ChainInputs
    /\ Locals
    /\ memo = {}
    /\ run = 1
    /\ first = NoResponse
    /\ NoDrivers
    /\ NothingBuilt

NextBuild ==
    \/ CreateTemplate
    \/ ComposeTemplates
    \/ Connect
    \/ LookupTemplate
    \/ LoadComposition
    \/ RunComponent(FALSE)
    \/ ReturnComposed
    \/ CloseDriver

SpecBuild == InitBuild /\ [][NextBuild]_vars

(***************************************************************************)
(* Properties                                                              *)
(***************************************************************************)
Finished == pc \in {"finally", "done"}
FirstRecordHas(result, name) == result.results # <<>> /\ Has(result.results[1], name)

\* C1: a composed execution whose composition was loaded returns one result
\* per component of the composition, and the i-th result carries the name of
\* the component that has exactly i-1 components with a smaller order value.
C1_OneResultPerComponentInOrder ==
    (record.found /\ Finished) =>
        /\ response.kind = "composed"
        /\ Len(response.composed_results) = Len(record.components)
        /\ \A i \in 1..Len(response.composed_results) :
              \E c \in Range(record.components) :
                 /\ c.name = response.composed_results[i].template_name
                 /\ Cardinality({d \in Range(record.components) : d.order < c.order}) = i - 1

\* C1 witness: two components stored in the reverse of their order values,
\* one failing and one succeeding, and the response is out.
C1_Witness ==
    /\ response.kind = "composed"
    /\ Len(response.composed_results) = 2
    /\ record.components[1].order = 1
    /\ response.composed_results[1].error # NoError
    /\ response.composed_results[2].results # <<>>

\* C2: every loop iteration that ended in a failure (unresolved required
\* parameter, failed rendering, backend exception) left a result of that
\* component with error set and no records; the loop went on to every
\* component, and the request ends as a 200 response carrying the results.
C2_FailuresAreIsolated ==
    record.found =>
        /\ Len(results) = Len(trace)
        /\ \A i \in 1..Len(trace) :
              trace[i].outcome # "ok" =>
                 /\ results[i].template_name = trace[i].component
                 /\ results[i].error # NoError
                 /\ results[i].results = <<>>
        /\ Finished =>
              /\ response.status = 200
              /\ response.kind = "composed"
              /\ Len(trace) = Len(record.components)
              /\ \A i \in 1..Len(trace) : trace[i].component = components[i].name

\* C2 witness: the first component's backend call raised, the second was
\* still executed and succeeded, and the response is out.
C2_Witness ==
    /\ response.kind = "composed"
    /\ Len(trace) = 2
    /\ trace[1].outcome = "raised"
    /\ trace[2].outcome = "ok"

\* C2 witness for a resolution failure followed by a successful component.
C2_WitnessMissing ==
    /\ response.kind = "composed"
    /\ Len(trace) = 2
    /\ trace[1].outcome = "missing"
    /\ trace[2].outcome = "ok"

C3_WitnessLaterRecord ==
    /\ composition_type = "SEQUENCE"
    /\ Len(trace) = 2
    /\ parameters["user_id"] = "42"
    /\ results[1].results = <<RecU, RecId>>
    /\ components[2].parameters = <<Param("user_id", "previous_result", FALSE)>>
    /\ trace[2].binds = <<>>

\* C4 (as claimed): in a SEQUENCE composition whose second component declares
\* a required previous_result-sourced parameter that is no field of the first
\* component's first record, the second result has a non-empty error and the
\* first result is the one the first component appended.
C4_MissingChainFieldFailsSecond ==
    (record.found /\ composition_type = "SEQUENCE" /\ Len(results) >= 2
       /\ \E p \in Range(components[2].parameters) :
             /\ p.source = "previous_result"
             /\ p.required
             /\ ~FirstRecordHas(results[1], p.name))
    => /\ results[2].error # NoError
       /\ results[1] = trace[1].result

\* C5: in a composition that is not SEQUENCE every assigned value, whatever
\* the parameter's source, is the caller's input value of that name, and the
\* context the previous_result source reads is still the caller's input.
C5_ParallelReadsInputOnly ==
    (record.found /\ composition_type # "SEQUENCE") =>
        /\ context = parameters
        /\ \A i \in 1..Len(trace) : \A j \in 1..Len(trace[i].binds) :
              /\ Has(parameters, trace[i].binds[j].name)
              /\ trace[i].binds[j].value = parameters[trace[i].binds[j].name]

\* C5 witness: the first component returned a record with user_id = "7" and
\* the second one's previous_result-sourced user_id was bound to the input's.
C5_Witness ==
    /\ composition_type = "PARALLEL"
    /\ Len(trace) = 2
    /\ results[1].results = <<RecId>>
    /\ \E j \in 1..Len(trace[2].binds) :
          /\ trace[2].binds[j].source = "previous_result"
          /\ trace[2].binds[j].value = "42"

\* C6: for a PARALLEL composition executed twice against a deterministic
\* backend, with the order values permuted in between, each component's
\* result (records and error) is the same in both responses.
C6_ParallelOutcomesSurvivePermutation ==
    (run = 2 /\ first.kind = "composed" /\ response.kind = "composed"
       /\ composition_type = "PARALLEL")
    => /\ Len(first.composed_results) = Len(response.composed_results)
       /\ \A i \in 1..Len(first.composed_results) :
             \E j \in 1..Len(response.composed_results) :
                response.composed_results[j] = first.composed_results[i]

\* C6 witness: the two responses list the same two components in opposite
\* positions; one of them failed and the other returned records.
C6_Witness ==
    /\ run = 2
    /\ first.kind = "composed"
    /\ response.kind = "composed"
    /\ composition_type = "PARALLEL"
    /\ Len(response.composed_results) = 2
    /\ first.composed_results[1].template_name = response.composed_results[2].template_name
    /\ first.composed_results[1].error # NoError
    /\ first.composed_results[2].results # <<>>

\* C7 (as claimed): for every template query sent, on any path, if the stored
\* query body contains the placeholder and a relationship_type value is
\* supplied, the query sent is the stored one with each placeholder replaced
\* by the value and the bound parameters do not contain relationship_type.
C7_PlaceholderRenderedOnEveryPath ==
    \A n \in 1..Len(calls) :
        (Contains(calls[n].stored, RelToken) /\ Has(calls[n].supplied, "relationship_type"))
        => /\ Len(calls[n].query) = Len(calls[n].stored)
           /\ \A i \in 1..Len(calls[n].stored) :
                 calls[n].query[i] =
                    IF calls[n].stored[i] = RelToken
                    THEN calls[n].supplied["relationship_type"]
                    ELSE calls[n].stored[i]
           /\ ~Has(calls[n].bound, "relationship_type")

\* C8 (as claimed): when the lookup finds no template of the requested name
\* the request ends with status 404 and no template query was sent.
C8_UnknownNameIsNotFound ==
    (Finished /\ template_info.fetched /\ ~template_info.found) =>
        /\ response.kind = "error"
        /\ response.status = 404
        /\ calls = <<>>
        /\ trace = <<>>

\* C9 (as claimed): when the composition lookup returns nothing the request
\* ends with a client error (404 or 400) and no component was resolved or run.
C9_MissingCompositionIsClientError ==
    (Finished /\ record.fetched /\ ~record.found) =>
        /\ response.kind = "error"
        /\ response.status \in {400, 404}
        /\ calls = <<>>
        /\ trace = <<>>

\* C10 (as claimed): a simple template that has a query, executed without one
\* of its required input-sourced parameters, ends as a 400 error response.
C10_SimpleMissingRequiredIsBadRequest ==
    (Finished /\ template_info.found /\ ~template_info.is_composed
       /\ template_info.query # NoQuery
       /\ \E p \in Range(store.parameters) :
             p.required /\ p.source = "input" /\ ~Has(parameters, p.name))
    => /\ response.kind = "error"
       /\ response.status = 400

\* C11: when a simple template's query ran and the backend raised nothing,
\* the request ends as a success whose result is the backend's record list; an
\* empty list is answered as success too, and the message is present exactly
\* when the result is empty.
SimpleQueryRan ==
    /\ Finished
    /\ template_info.found /\ ~template_info.is_composed
    /\ calls # <<>> /\ ~calls[1].answer.raised
C11_EmptySimpleResultIsSuccess ==
    SimpleQueryRan =>
        /\ response.kind = "simple"
        /\ response.status = 200
        /\ response.result = calls[1].answer.records
        /\ (response.message # None) <=> (response.result = <<>>)
C11_Witness ==
    /\ SimpleQueryRan
    /\ response.result = <<>>
    /\ response.message = "No results found"
C11_WitnessRecords ==
    /\ SimpleQueryRan
    /\ response.result # <<>>
    /\ response.message = None

\* The j-th declared parameter of the i-th executed component got no value.
Unresolved(i, j) == ~\E b \in Range(trace[i].binds) : b.param = j
CallsOf(name) == {n \in 1..Len(calls) : calls[n].template = name}

\* C12 (as claimed): for every declared parameter of an executed component
\* that got no value: if it is required the component ends with the
\* missing-required-parameter error and no query was sent for it; if it is
\* not required and the component's query was sent, its name is not in the
\* bound map.
C12_UnresolvedRequiredFailsOptionalOmitted ==
    record.found =>
        \A i \in 1..Len(trace) : \A j \in 1..Len(components[i].parameters) :
            LET param == components[i].parameters[j]
            IN Unresolved(i, j) =>
                  IF param.required
                  THEN /\ trace[i].outcome = "missing"
                       /\ results[i].error # NoError
                       /\ CallsOf(components[i].name) = {}
                  ELSE \A n \in CallsOf(components[i].name) :
                           ~Has(calls[n].bound, param.name)

\* C13 (as claimed): in a SEQUENCE composition, when a component's result
\* carries an error and the next component declares a required
\* previous_result-sourced parameter, the prior result has no records, every
\* such parameter gets no value, the next component ends with its own
\* missing-required-parameter error, and both errors are entries of the
\* returned list.
RequiredFromPrevious(param) == param.required /\ param.source = "previous_result"
IsMissingError(component, error) ==
    \E param \in Range(component.parameters) :
        error = StrExc(ValueError(component.name, param.name))
C13_ErrorCascadesToDependent ==
    (record.found /\ composition_type = "SEQUENCE") =>
        \A i \in 1..(Len(trace) - 1) :
            (/\ results[i].error # NoError
             /\ \E param \in Range(components[i + 1].parameters) :
                    RequiredFromPrevious(param))
            => /\ results[i].results = <<>>
               /\ \A j \in 1..Len(components[i + 1].parameters) :
                      RequiredFromPrevious(components[i + 1].parameters[j])
                          => Unresolved(i + 1, j)
               /\ trace[i + 1].outcome = "missing"
               /\ IsMissingError(components[i + 1], results[i + 1].error)
               /\ Finished => /\ response.kind = "composed"
                              /\ response.composed_results = results

\* C14 (as claimed): the error recorded by a component that stopped on a
\* missing required parameter is exactly "Missing required parameter for
\* <component name>: <parameter name>", where the component is the one that
\* failed and the parameter is the first declared one, in declaration order,
\* that is required and got no value.
FirstUnresolvedRequired(i) ==
    LET ps == components[i].parameters
        Open(j) == ps[j].required /\ Unresolved(i, j)
    IN CHOOSE j \in 1..Len(ps) : Open(j) /\ \A k \in 1..(j - 1) : ~Open(k)
C14_MissingErrorNamesFirstUnresolved ==
    record.found =>
        \A i \in 1..Len(trace) :
            trace[i].outcome = "missing" =>
                /\ results[i].template_name = components[i].name
                /\ results[i].error =
                      <<"Missing required parameter for ", components[i].name, ": ",
                        components[i].parameters[FirstUnresolvedRequired(i)].name>>

\* C15: for every component query sent by a composed execution, the text sent
\* differs from the stored query body only where the stored body has the
\* relationship_type placeholder, and there it carries the relationship_type
\* value; without a relationship_type value the text is the stored body
\* whatever other parameters are supplied, and every other supplied parameter
\* is in the bound map with its value.
C15_OnlyRelationshipTypeIsSpliced ==
    record.found =>
        \A n \in 1..Len(calls) :
            LET call == calls[n]
            IN /\ Len(call.query) = Len(call.stored)
               /\ \A i \in 1..Len(call.stored) :
                      call.query[i] # call.stored[i]
                          => /\ call.stored[i] = RelToken
                             /\ Has(call.supplied, "relationship_type")
                             /\ call.query[i] = call.supplied["relationship_type"]
               /\ ~Has(call.supplied, "relationship_type") => call.query = call.stored
               /\ \A k \in Keys \ {"relationship_type"} :
                      call.bound[k] = call.supplied[k]
C15_Witness ==
    /\ record.found
    /\ \E n \in 1..Len(calls) :
          /\ Has(calls[n].supplied, "user_id")
          /\ Has(calls[n].supplied, "relationship_type")
          /\ Contains(calls[n].stored, RelToken)
          /\ ~Contains(calls[n].query, RelToken)
          /\ Contains(calls[n].query, "$user_id")
          /\ calls[n].bound["user_id"] = calls[n].supplied["user_id"]
C15_WitnessNoValue ==
    /\ record.found
    /\ \E n \in 1..Len(calls) :
          /\ Has(calls[n].supplied, "user_id")
          /\ ~Has(calls[n].supplied, "relationship_type")
          /\ Contains(calls[n].query, RelToken)

\* C16 (as claimed): a relationship_type value that is no identifier
\* (a letter or underscore followed by letters, digits and underscores) is
\* never part of the text of a query sent to the backend.
IsIdentifier(v) == v \in {"FOLLOWS", "KNOWS", "n"}
C16_NonIdentifierNeverSpliced ==
    \A n \in 1..Len(calls) :
        (/\ Has(calls[n].supplied, "relationship_type")
         /\ ~IsIdentifier(calls[n].supplied["relationship_type"]))
        => ~Contains(calls[n].query, Format(calls[n].supplied["relationship_type"]))

\* C17: every component result has the fields results and error; a result
\* whose error is set has an empty record list; a component that executed
\* successfully has no error and the records the backend returned; and the
\* response carries these results unchanged.
C17_ErrorAndRecordsExclusive ==
    record.found =>
        /\ Len(results) = Len(trace)
        /\ \A i \in 1..Len(results) :
              /\ DOMAIN results[i] = {"template_name", "results", "error"}
              /\ results[i].error # NoError => results[i].results = <<>>
              /\ trace[i].outcome = "ok" =>
                    /\ results[i].error = NoError
                    /\ \A n \in CallsOf(components[i].name) :
                          results[i].results = calls[n].answer.records
              /\ trace[i].outcome # "ok" => results[i].error # NoError
        /\ response.kind = "composed" => response.composed_results = results
C17_Witness ==
    /\ response.kind = "composed"
    /\ Len(results) = 2
    /\ results[1].results # <<>> /\ results[1].error = NoError
    /\ trace[2].outcome = "raised"
    /\ results[2].results = <<>> /\ results[2].error # NoError

\* C18: within one composed execution no component's query is sent twice, the
\* i-th iteration is the only one for the i-th component, and a component that
\* ended with an error before its query was sent has no call at all.
C18_NoRetry ==
    record.found =>
        /\ \A n, m \in 1..Len(calls) : calls[n].template = calls[m].template => n = m
        /\ Len(trace) <= Len(components)
        /\ \A i \in 1..Len(trace) :
              /\ trace[i].component = components[i].name
              /\ trace[i].outcome \in {"missing", "type_error"}
                    => CallsOf(components[i].name) = {}
              /\ trace[i].outcome \in {"ok", "raised"}
                    => Cardinality(CallsOf(components[i].name)) = 1
C18_Witness ==
    /\ response.kind = "composed"
    /\ Len(trace) = 2
    /\ trace[1].outcome = "raised"
    /\ trace[2].outcome = "missing"
    /\ Len(calls) = 1

\* C19: once the composition is loaded the execution eventually returns the
\* composed response, and the response then holds exactly one outcome for
\* every component of the composition, whatever errors occurred on the way.
OneOutcomeEach(composed_results) ==
    /\ Len(composed_results) = Len(record.components)
    /\ \A c \in Range(record.components) :
          Cardinality({i \in 1..Len(composed_results) :
                          composed_results[i].template_name = c.name}) = 1
C19_ComposedExecutionReturnsAll ==
    (pc = "loop") ~> (response.kind = "composed" /\ OneOutcomeEach(response.composed_results))
C19_Witness ==
    /\ pc = "done"
    /\ response.kind = "composed"
    /\ OneOutcomeEach(response.composed_results)
    /\ Len(response.composed_results) = MaxComponents
    /\ \A i \in 1..Len(trace) : trace[i].outcome # "ok"

\* C20: in a SEQUENCE composition all component queries of the request arrive
\* on one session, in strictly ascending order of the components' order
\* values, and when a component's query arrives the outcomes of exactly the
\* components of smaller order have been appended.
OrderOf(name) == (CHOOSE c \in Range(record.components) : c.name = name).order
Before(name) == {c \in Range(record.components) : c.order < OrderOf(name)}
C20_SequenceCallsSerialAscending ==
    (record.found /\ composition_type = "SEQUENCE") =>
        /\ \A n, m \in 1..Len(calls) :
              /\ calls[n].session = calls[m].session
              /\ n < m => OrderOf(calls[n].template) < OrderOf(calls[m].template)
        /\ \A n \in 1..Len(calls) :
              /\ calls[n].appended = Cardinality(Before(calls[n].template))
              /\ \A c \in Before(calls[n].template) :
                    \E i \in 1..calls[n].appended : trace[i].component = c.name
C20_Witness ==
    /\ record.found /\ composition_type = "SEQUENCE"
    /\ Len(calls) = 2
    /\ record.components[1].order > record.components[2].order
    /\ calls[1].template = record.components[2].name
    /\ calls[2].appended = 1

\* C21: a request that has returned has closed the driver it acquired exactly
\* once, on whatever path it ended (success, composed execution with failed
\* components, error response), no driver object is left open, and the driver
\* is open until then.
ClosedOnce(d) == pool[d] = [state |-> "closed", closes |-> 1]
C21_DriverClosedExactlyOnce ==
    /\ pc = "done" =>
          /\ driver # NoDriver => ClosedOnce(driver)
          /\ \A d \in 1..Len(pool) : ClosedOnce(d)
          /\ driver = NoDriver => (pool = <<>> /\ response.kind = "error")
    /\ (pc # "done" /\ driver # NoDriver) => pool[driver] = NewDriver
C21_Witness ==
    /\ pc = "done"
    /\ response.kind = "error"
    /\ driver # NoDriver
    /\ ClosedOnce(driver)
C21_WitnessComposedFailure ==
    /\ pc = "done"
    /\ response.kind = "composed"
    /\ \E i \in 1..Len(results) : results[i].error # NoError
    /\ ClosedOnce(driver)
C21_WitnessSuccess ==
    /\ pc = "done"
    /\ response.kind = "simple"
    /\ ClosedOnce(driver)

\* C22: of two interleaved execute requests each holds a driver object of its
\* own; the driver a request is using stays open whatever the other request
\* does, and each request closes its own driver once, also after the other
\* one has replaced neo4j_connection.driver.
InUse == pc \in {"lookup", "composed", "simple", "loop", "finally"} /\ driver # NoDriver
OtherInUse == other.pc \in {"connected", "finally"}
C22_WitnessOtherInUse ==
    /\ pc = "done"
    /\ driver # NoDriver
    /\ OtherInUse
    /\ connection = driver

Declared(component) == {param.name : param \in Range(component.parameters)}
C24_BoundMapHasDeclaredNamesOnly ==
    record.found =>
        \A i \in 1..Len(trace) :
            /\ \A k \in Keys :
                  Has(trace[i].exec_params, k) => k \in Declared(components[i])
            /\ \A n \in CallsOf(components[i].name) : \A k \in Keys :
                  Has(calls[n].bound, k) => k \in Declared(components[i])
            /\ \A b \in Range(trace[i].binds) :
                  b.source = "input" =>
                      /\ Has(parameters, b.name)
                      /\ b.value = parameters[b.name]
C24_Witness ==
    /\ record.found /\ composition_type = "SEQUENCE"
    /\ Len(calls) = 2
    /\ Has(parameters, "user_id")
    /\ ~Has(calls[1].bound, "user_id")
    /\ FirstRecordHas(results[1], "user_id")
    /\ results[1].results[1]["user_id"] # parameters["user_id"]
    /\ trace[2].binds # <<>> /\ trace[2].binds[1].source = "input"
    /\ calls[2].bound["user_id"] = parameters["user_id"]

\* C25: a composition whose stored composition_type is not "SEQUENCE" (absent
\* included) runs the other branch: its context stays the caller's input and
\* every value assigned for a previous_result-sourced parameter is the
\* caller's input value of that name; get_template reports the absent
\* composition_type of the same template as "SEQUENCE".
C25_NonSequenceTypeRunsParallel ==
    (record.found /\ record.type # "SEQUENCE") =>
        /\ context = parameters
        /\ \A i \in 1..Len(trace) : \A b \in Range(trace[i].binds) :
              b.source = "previous_result" =>
                  /\ Has(parameters, b.name)
                  /\ b.value = parameters[b.name]
        /\ record.type = None => get_template(store).composition_type = "SEQUENCE"
C25_Witness ==
    /\ record.found /\ record.type = None
    /\ Len(trace) = 2
    /\ FirstRecordHas(results[1], "relationship_type")
    /\ \E b \in Range(trace[2].binds) :
          /\ b.source = "previous_result"
          /\ b.value = parameters[b.name]
          /\ b.value # results[1].results[1][b.name]
    /\ get_template(store).composition_type = "SEQUENCE"
C25_WitnessOtherString ==
    /\ record.found /\ record.type = "sequence"
    /\ Len(trace) = 2
    /\ FirstRecordHas(results[1], "relationship_type")
    /\ \E b \in Range(trace[2].binds) : b.source = "previous_result"
    /\ get_template(store).composition_type = "sequence"

\* C26 (as claimed): after a successful compose_templates request the order
\* values of the n COMPOSES edges are 0..n-1, each once; the order value of
\* every component is the index of its name in the request's templates list;
\* and a SEQUENCE execution runs the components in the order of that list.
Composed == requests.compose.status = "success" /\ store.kind = "composed"
DenseOrders ==
    /\ Len(store.components) = Len(requests.compose.templates)
    /\ {store.components[i].order : i \in 1..Len(store.components)}
          = 0..(Len(store.components) - 1)
C26_OrderIsIndexInRequest ==
    Composed =>
        /\ DenseOrders
        /\ \A i \in 1..Len(store.components) :
              requests.compose.templates[store.components[i].order + 1]
                  = store.components[i].name
        /\ (record.found /\ composition_type = "SEQUENCE") =>
              \A i \in 1..Len(trace) :
                  trace[i].component = requests.compose.templates[i]

\* C27: every parameter of a template added by create_template is stored
\* without a source, whatever the request said; and in the execution of a
\* composition made by compose_templates from such templates every declared
\* parameter is input-sourced and every assigned value is the caller's input
\* value of that name, never a field of an earlier component's record.
C27_CreatedParametersAreInputSourced ==
    /\ \A n \in BuildNames : \A param \in Range(catalog[n].parameters) :
          param.source = None
    /\ (Composed /\ record.found) =>
          \A i \in 1..Len(components) :
              /\ \A param \in Range(components[i].parameters) : param.source = "input"
              /\ i <= Len(trace) =>
                    \A b \in Range(trace[i].binds) :
                        /\ b.source = "input"
                        /\ b.value = parameters[b.name]
C27_Witness ==
    /\ Composed /\ record.found /\ composition_type = "SEQUENCE"
    /\ Len(trace) = 2
    /\ \E param \in Range(requests.create[components[2].name].parameters) :
          param.source = "previous_result"
    /\ FirstRecordHas(results[1], "user_id")
    /\ trace[2].binds # <<>>
    /\ trace[2].binds[1].value = parameters["user_id"]
    /\ trace[2].binds[1].value # results[1].results[1]["user_id"]

\* C28: a component stored without parameters is loaded with the single
\* entry whose name and required flag are null; its iteration assigns
\* nothing, never stops on a missing parameter, and sends its query with an
\* empty bound map whatever the caller's input is.
Loaded(name) == CHOOSE c \in Range(record.components) : c.name = name
C28_NullParameterBindsNothing ==
    record.found =>
        \A c \in Range(store.components) :
            c.parameters = <<>> =>
                /\ Loaded(c.name).parameters = <<NullParameter>>
                /\ \A i \in 1..Len(trace) :
                      trace[i].component = c.name =>
                          /\ trace[i].outcome \in {"ok", "raised"}
                          /\ trace[i].binds = <<>>
                          /\ trace[i].exec_params = EmptyDict
                          /\ \A n \in CallsOf(c.name) : calls[n].bound = EmptyDict
                          /\ Cardinality(CallsOf(c.name)) = 1
C28_Witness ==
    /\ record.found
    /\ Has(parameters, "user_id")
    /\ Len(trace) >= 1
    /\ components[1].parameters = <<NullParameter>>
    /\ trace[1].outcome = "ok"
    /\ Len(calls) >= 1
    /\ calls[1].bound = EmptyDict

\* C29: the one query a simple template sends carries the caller's input map
\* unchanged as its bound parameters; its text is the template's stored query
\* body, except for the names find_user_items and find_user_relationships,
\* whose text is the handler's own whatever the stored body is.
SimpleQuerySent == template_info.found /\ ~template_info.is_composed /\ calls # <<>>
C29_SimpleSendsStoredQueryAndInput ==
    SimpleQuerySent =>
        /\ Len(calls) = 1
        /\ calls[1].bound = parameters
        /\ calls[1].stored = template_info.query
        /\ template_name \notin {"find_user_items", "find_user_relationships"}
              => calls[1].query = calls[1].stored
        /\ template_name = "find_user_items" => calls[1].query = QItems
        /\ template_name = "find_user_relationships"
              => calls[1].query = QRelationships(parameters["relationship_type"])
C29_Witness ==
    /\ SimpleQuerySent
    /\ template_name \notin {"find_user_items", "find_user_relationships"}
    /\ Has(parameters, "relationship_type")
    /\ Contains(calls[1].query, RelToken)
    /\ calls[1].bound["relationship_type"] = parameters["relationship_type"]
C29_WitnessHardCoded ==
    /\ SimpleQuerySent
    /\ template_name = "find_user_items"
    /\ calls[1].stored = QRel
    /\ calls[1].query = QItems

====
